---- MODULE Spec2Model ----
(***************************************************************************)
(* A model of the two agents of gpt-oss-20b-ai-agent-docker:               *)
(*   - GPTOSSAgent (simple_agent.py): chat / think / reset_conversation    *)
(*     over a rolling conversation history;                                *)
(*   - MultiAgentSystem (advanced_agent.py): execute_agent_task with its   *)
(*     tool-call detection and execute_crew_workflow with its context      *)
(*     threading.                                                          *)
(* The completion endpoint and the tool gateway are the environment: what  *)
(* they answer is drawn from small sets by the actions.                    *)
(*                                                                         *)
(* Text is a sequence of tokens <<kind, content>>; concatenation of text   *)
(* is \o.  Python's str.strip, the substring test, json.loads and          *)
(* dict.get are computed on that representation.                           *)
(***************************************************************************)
EXTENDS Integers, Sequences, FiniteSets, TLC

\* ------------------------------------------------------------------ text
Word(s) == <<"word", s>>
Str(s) == <<"str", s>>
Num(s) == <<"num", s>>
Lit(s) == <<"lit", s>>
Repr(v) == <<"repr", v>>

SP == <<"ws", " ">>
FF == <<"ws", "\f">>
NL == <<"ws", "\n">>
LB == <<"punct", "{">>
RB == <<"punct", "}">>
COLON == <<"punct", ":">>
COMMA == <<"punct", ",">>

\* str.strip(): every whitespace character goes, at both ends.
IsSpace(tok) == tok[1] = "ws"

RECURSIVE LStrip(_)
LStrip(text) ==
    IF text # <<>> /\ IsSpace(Head(text)) THEN LStrip(Tail(text)) ELSE text

RECURSIVE RStrip(_)
RStrip(text) ==
    IF text # <<>> /\ IsSpace(text[Len(text)])
    THEN RStrip(SubSeq(text, 1, Len(text) - 1))
    ELSE text

Strip(text) == RStrip(LStrip(text))

StartsWithBrace(text) == text # <<>> /\ Head(text) = LB

\* 'action' in response: the tokens whose characters hold that substring.
HoldsAction(tok) ==
    /\ tok[1] \in {"word", "str"}
    /\ tok[2] \in {"action", "reaction", "take action"}

ContainsAction(text) == \E k \in 1..Len(text) : HoldsAction(text[k])

\* ------------------------------------------------------------- json.loads
\* Values: <<"string", s>>, <<"number", s>>, <<"literal", s>> (null, true,
\* false) and <<"object", members>>, members a sequence of <<key, value>>.
PyNone == <<"literal", "null">>
EmptyDict == <<"object", <<>>>>
ParseFail == [ok |-> FALSE, val |-> PyNone, next |-> 0]
ParseOk(v, n) == [ok |-> TRUE, val |-> v, next |-> n]

\* JSON whitespace is space, tab, newline and carriage return only.
IsJsonSpace(tok) == tok \in {SP, NL}

RECURSIVE SkipWs(_, _)
SkipWs(text, k) ==
    IF k <= Len(text) /\ IsJsonSpace(text[k]) THEN SkipWs(text, k + 1) ELSE k

RECURSIVE ParseValue(_, _)
RECURSIVE ParseMembers(_, _, _, _)

\* The separator after a member: a comma and more members, or the end.
ParseNext(text, m, members) ==
    IF m > Len(text) THEN ParseFail
    ELSE IF text[m] = COMMA THEN ParseMembers(text, m + 1, members, FALSE)
    ELSE IF text[m] = RB THEN ParseOk(<<"object", members>>, m + 1)
    ELSE ParseFail

ParseMember(text, key, v, acc) ==
    IF ~v.ok THEN ParseFail
    ELSE ParseNext(text, SkipWs(text, v.next), Append(acc, <<key, v.val>>))

ParseColon(text, key, c, acc) ==
    IF c > Len(text) \/ text[c] # COLON THEN ParseFail
    ELSE ParseMember(text, key, ParseValue(text, c + 1), acc)

ParseKey(text, j, acc, first) ==
    IF j > Len(text) THEN ParseFail
    ELSE IF first /\ text[j] = RB THEN ParseOk(<<"object", acc>>, j + 1)
    ELSE IF text[j][1] # "str" THEN ParseFail
    ELSE ParseColon(text, text[j][2], SkipWs(text, j + 1), acc)

ParseMembers(text, k, acc, first) == ParseKey(text, SkipWs(text, k), acc, first)

ParseValueAt(text, j) ==
    IF j > Len(text) THEN ParseFail
    ELSE IF text[j][1] = "str" THEN ParseOk(<<"string", text[j][2]>>, j + 1)
    ELSE IF text[j][1] = "num" THEN ParseOk(<<"number", text[j][2]>>, j + 1)
    ELSE IF text[j][1] = "lit" THEN ParseOk(<<"literal", text[j][2]>>, j + 1)
    ELSE IF text[j] = LB THEN ParseMembers(text, j + 1, <<>>, TRUE)
    ELSE ParseFail

ParseValue(text, k) == ParseValueAt(text, SkipWs(text, k))

\* Nothing but whitespace may follow the value ("Extra data" otherwise).
ParseEnd(text, v) ==
    IF v.ok /\ SkipWs(text, v.next) > Len(text)
    THEN [ok |-> TRUE, val |-> v.val]
    ELSE [ok |-> FALSE, val |-> PyNone]

\* json.loads(text): ok = FALSE stands for json.JSONDecodeError.
JsonLoads(text) == ParseEnd(text, ParseValue(text, 1))

\* dict.get(key, default): the last member with that key wins.
RECURSIVE GetMember(_, _, _)
GetMember(members, key, default) ==
    IF members = <<>> THEN default
    ELSE LET last == members[Len(members)] IN
         IF last[1] = key THEN last[2]
         ELSE GetMember(SubSeq(members, 1, Len(members) - 1), key, default)

DictGet(obj, key, default) == GetMember(obj[2], key, default)

\* ------------------------------------------------------------- sequences
\* seq[-n:]
LastN(seq, n) ==
    IF Len(seq) <= n THEN seq ELSE SubSeq(seq, Len(seq) - n + 1, Len(seq))

Message(role, content) == [role |-> role, content |-> content]

\* =====================================================================
\* simple_agent.py: GPTOSSAgent
\* =====================================================================
VARIABLES
    conversation_history,   \* GPTOSSAgent.conversation_history
    reasoning_level,        \* GPTOSSAgent.config.reasoning_level
    request,                \* the messages of the latest completion request
    last,                   \* the latest call: what was called, how it ended
    printed                 \* what main's loop printed for it

\* advanced_agent.py: MultiAgentSystem and one execute_crew_workflow call
VARIABLES
    agents,         \* MultiAgentSystem.agents: name -> CrewAgent
    task_results,   \* MultiAgentSystem.task_results
    pc,             \* where execute_crew_workflow stands: idle, running, done
    workflow,       \* its argument
    step,           \* the number of loop iterations it has completed
    results,        \* its local results
    context,        \* its local context
    returned,       \* what it returned
    call,           \* the latest execute_agent_task call: its arguments
    calls,          \* the requests that call sent out, in order
    result,         \* what that call returned
    raised,         \* whether it ended in an exception instead
    task_count      \* per agent, the execute_agent_task calls that found it

crewVars == <<agents, task_results, pc, workflow, step, results, context,
              returned, call, calls, result, raised, task_count>>

Levels == {"low", "medium", "high"}
DefaultLevel == "medium"

UserInputs == {<<Word("hi")>>, <<Word("why")>>}
ChatContents == {<<Word("fine")>>}

\* What the endpoint does with one POST /chat/completions.
\*   ok:                a 2xx body with choices[0].message.content
\*   request_exception: transport failure, timeout or non-2xx status
\*   bad_shape:         a 2xx JSON body without choices[0].message.content
ChatAnswers ==
    {[kind |-> "ok", text |-> c] : c \in ChatContents}
    \cup {[kind |-> "request_exception", text |-> <<Word("HTTPError 500")>>],
          [kind |-> "bad_shape", text |-> <<Word("KeyError 'choices'")>>]}

CommunicationError == <<Word("Error communicating with model: ")>>
DefaultPrompt == <<Word("You are a helpful AI assistant. Reasoning: ")>>
ExpertPrompt == <<Word("You are an expert problem solver.")>>
ReasoningLine == <<NL, Word("Reasoning: ")>>
NoPrompt == <<>>

\* Fault: the failure comes back as content, as _make_llm_request does it.
MakeRequestInline(messages, answer) ==
    IF answer.kind = "request_exception"
    THEN [raised |-> FALSE,
          value |-> [kind |-> "ok", text |-> <<Word("Error: ")>> \o answer.text]]
    ELSE [raised |-> FALSE, value |-> answer]

\* _make_request: the parsed body is returned, a RequestException is
\* re-raised as Exception("Error communicating with model: ...").
MakeRequest(messages, answer) ==
    IF answer.kind = "request_exception"
    THEN [raised |-> TRUE, value |-> CommunicationError \o answer.text]
    ELSE [raised |-> FALSE, value |-> answer]

HistoryCap == 10

\* Fault: history[:10], the oldest entries kept.
TrimHistoryOldest(history) ==
    IF Len(history) > HistoryCap THEN SubSeq(history, 1, HistoryCap) ELSE history

\* "Keep conversation history manageable"
TrimHistory(history) ==
    IF Len(history) > HistoryCap THEN LastN(history, HistoryCap) ELSE history

\* chat(user_input, system_prompt), given what the endpoint answers.
Chat(history, level, user_input, system_prompt, answer) ==
    LET system ==
            IF system_prompt # NoPrompt
            THEN Message("system", system_prompt \o ReasoningLine \o <<Word(level)>>)
            ELSE Message("system", DefaultPrompt \o <<Word(level)>>)
        messages == <<system>> \o history \o <<Message("user", user_input)>>
        response == MakeRequest(messages, answer)
    IN  IF response.raised
        THEN [messages |-> messages, raised |-> TRUE, value |-> response.value,
              history |-> history]
        ELSE IF response.value.kind # "ok"
        THEN [messages |-> messages, raised |-> TRUE, value |-> response.value.text,
              history |-> history]
        ELSE LET assistant_response == response.value.text
                 appended == history \o <<Message("user", user_input),
                                          Message("assistant", assistant_response)>>
             IN [messages |-> messages, raised |-> FALSE,
                 value |-> assistant_response,
                 history |-> TrimHistory(appended)]

\* Fault: the level is restored after chat returns, without finally.
ThinkNoFinally(history, original_level, task, level, answer) ==
    LET r == Chat(history, level, task, ExpertPrompt, answer)
    IN  [messages |-> r.messages, raised |-> r.raised, value |-> r.value,
         history |-> r.history,
         level |-> IF r.raised THEN level ELSE original_level]

\* think(task, reasoning_level): chat under another level; the finally
\* clause puts the original level back however chat ends.
Think(history, original_level, task, level, answer) ==
    LET r == Chat(history, level, task, ExpertPrompt, answer)
    IN  [messages |-> r.messages, raised |-> r.raised, value |-> r.value,
         history |-> r.history, level |-> original_level]

\* main's loop body: print(response), or the except clause's message.
MainPrinted(failed, value) ==
    IF failed THEN <<Word("Error: ")>> \o value ELSE value

simpleVars == <<conversation_history, reasoning_level, request, last, printed>>

NoCall == [op |-> "none", input |-> <<>>, level |-> DefaultLevel,
           answer |-> "none", raised |-> FALSE, value |-> <<>>]

InitSimple ==
    /\ conversation_history = <<>>
    /\ reasoning_level = DefaultLevel
    /\ request = <<>>
    /\ last = NoCall
    /\ printed = <<>>

ChatCall ==
    \E user_input \in UserInputs, answer \in ChatAnswers :
        LET r == Chat(conversation_history, reasoning_level, user_input,
                      NoPrompt, answer)
        IN  /\ conversation_history' = r.history
            /\ request' = r.messages
            /\ last' = [op |-> "chat", input |-> user_input,
                        level |-> reasoning_level,
                        answer |-> answer.kind,
                        raised |-> r.raised, value |-> r.value]
            /\ printed' = MainPrinted(r.raised, r.value)
            /\ UNCHANGED <<reasoning_level, crewVars>>

ThinkCall ==
    \E task \in UserInputs, level \in Levels, answer \in ChatAnswers :
        LET r == Think(conversation_history, reasoning_level, task, level, answer)
        IN  /\ conversation_history' = r.history
            /\ reasoning_level' = r.level
            /\ request' = r.messages
            /\ last' = [op |-> "think", input |-> task, level |-> level,
                        answer |-> answer.kind,
                        raised |-> r.raised, value |-> r.value]
            /\ printed' = MainPrinted(r.raised, r.value)
            /\ UNCHANGED crewVars

ResetConversation ==
    /\ conversation_history' = <<>>
    /\ last' = [NoCall EXCEPT !.op = "reset"]
    /\ printed' = <<Word("Conversation reset!")>>
    /\ UNCHANGED <<reasoning_level, request, crewVars>>

\* =====================================================================
\* advanced_agent.py: CrewAgent, MCPToolManager, MultiAgentSystem
\* =====================================================================
CrewAgent(role, goal, backstory, tools) ==
    [role |-> role, goal |-> goal, backstory |-> backstory, tools |-> tools,
     conversation_history |-> <<>>]

RECURSIVE Join(_, _)
Join(sep, names) ==
    IF names = <<>> THEN <<>>
    ELSE IF Len(names) = 1 THEN <<Word(names[1])>>
    ELSE <<Word(names[1])>> \o sep \o Join(sep, Tail(names))

ToolInstructions ==
    <<Word("When using tools, respond with JSON in this format:"), NL,
      LB, Str("action"), COLON, SP, Str("use_tool"), COMMA, SP,
      Str("tool"), COLON, SP, Str("tool_name"), COMMA, SP,
      Str("parameters"), COLON, SP, LB, Str("param"), COLON, SP, Str("value"),
      RB, RB, NL, NL,
      Word("Otherwise, respond normally to help achieve your goal.")>>

\* CrewAgent.get_system_prompt
GetSystemPrompt(agent) ==
    LET tools_desc ==
            IF agent.tools # <<>>
            THEN <<Word("Available tools: ")>> \o Join(<<Word(", ")>>, agent.tools)
            ELSE <<Word("No tools available")>>
    IN  <<Word("You are a "), Word(agent.role), Word("."), NL, NL,
          Word("Goal: "), Word(agent.goal), NL, NL,
          Word("Backstory: "), Word(agent.backstory), NL, NL>>
        \o tools_desc \o <<NL, NL>> \o ToolInstructions

\* create_research_crew: the three agents main registers.
ResearchCrew ==
    [name \in {"researcher", "analyst", "writer"} |->
        CASE name = "researcher" ->
                CrewAgent("Senior Research Analyst", "research", "experienced",
                          <<"web_search", "duckduckgo", "wikipedia">>)
          [] name = "analyst" ->
                CrewAgent("Data Analyst", "analyze", "specialist",
                          <<"data_analysis", "statistics">>)
          [] name = "writer" ->
                CrewAgent("Technical Writer", "report", "writer",
                          <<"document_generation">>)]

\* What the endpoint does with one POST /chat/completions: a 2xx body with
\* the content `text`, or anything that raises inside the try block.
LLMOk(text) == [kind |-> "ok", text |-> text]
LLMError == [kind |-> "exception", text |-> <<Word("HTTPError 500")>>]

\* _make_llm_request: the content, or "Error: <exception>" as the content.
MakeLLMRequest(messages, answer) ==
    IF answer.kind = "ok" THEN answer.text
    ELSE <<Word("Error: ")>> \o answer.text

\* What the gateway does with one POST /call: a JSON body, or anything that
\* raises inside call_tool's try block.
GatewayOk(val) == [kind |-> "ok", val |-> val]
GatewayError == [kind |-> "exception", val |-> <<"string", "ConnectionError">>]

\* MCPToolManager.call_tool
CallTool(tool_name, parameters, gateway) ==
    IF gateway.kind = "ok" THEN gateway.val
    ELSE <<"object",
           <<<<"error", <<"string", "Tool call failed: ConnectionError">>>>>>>>

\* str(value) inside an f-string: a str is its characters, anything else
\* its repr.
PyStr(value) ==
    IF value[1] = "string" THEN <<Word(value[2])>> ELSE <<Repr(value)>>

\* One exchange with the outside: the request and what came back.
LLMCall(messages, reply) ==
    [kind |-> "llm", messages |-> messages, tool |-> PyNone,
     parameters |-> PyNone, reply |-> reply]
ToolCall(tool_name, parameters, reply) ==
    [kind |-> "tool", messages |-> <<>>, tool |-> tool_name,
     parameters |-> parameters, reply |-> PyStr(reply)]

\* Fault: the message does not name the agent.
AgentNotFoundUnnamed(agent_name) == <<Word("Agent not found")>>

AgentNotFound(agent_name) ==
    <<Word("Agent "), Word(agent_name), Word(" not found")>>

TaskLabel == <<Word("Task: ")>>
ContextSeparator == <<NL, NL, Word("Context from previous agents: ")>>
RecentWindow == 6

\* task_prompt of execute_agent_task
TaskPrompt(task, ctx) ==
    IF ctx # <<>> THEN TaskLabel \o task \o ContextSeparator \o ctx
    ELSE TaskLabel \o task

\* Fault: the whole history goes into the prompt.
RecentHistoryWhole(history) == history

\* agent.conversation_history[-6:]
RecentHistory(history) == LastN(history, RecentWindow)

\* messages of execute_agent_task's first completion request
BuildMessages(agent, task, ctx) ==
    <<Message("system", GetSystemPrompt(agent))>>
    \o RecentHistory(agent.conversation_history)
    \o <<Message("user", TaskPrompt(task, ctx))>>

\* response.strip().startswith('{') and 'action' in response
LooksLikeToolCall(response) ==
    StartsWithBrace(Strip(response)) /\ ContainsAction(response)

\* Fault: any parsed object counts as a tool request.
IsUseToolAnyAction(action_data) == TRUE

\* action_data.get("action") == "use_tool"
IsUseTool(action_data) ==
    DictGet(action_data, "action", PyNone) = <<"string", "use_tool">>

\* action_data.get("tool")
ToolName(action_data) == DictGet(action_data, "tool", PyNone)

\* Fault: get("parameters") without the {} default.
ToolParametersNoDefault(action_data) == DictGet(action_data, "parameters", PyNone)

\* action_data.get("parameters", {})
ToolParameters(action_data) == DictGet(action_data, "parameters", EmptyDict)

\* The except clause around the detection.
Handles(exception) == exception = "JSONDecodeError"

\* Fault: the stored history is cut to the prompt window.
UpdatedHistoryWindowed(history, task_prompt, final) ==
    LastN(history \o <<Message("user", task_prompt), Message("assistant", final)>>,
          RecentWindow)

\* "Update agent's conversation history"
UpdatedHistory(history, task_prompt, final) ==
    history \o <<Message("user", task_prompt), Message("assistant", final)>>

\* The end of execute_agent_task: the history is updated, response returned.
Finish(crew, agent_name, task_prompt, final, sent) ==
    [raised |-> FALSE, result |-> final,
     agents |-> [crew EXCEPT ![agent_name].conversation_history =
                     UpdatedHistory(@, task_prompt, final)],
     calls |-> sent]

\* An exception leaving execute_agent_task.
Raise(crew, exception, sent) ==
    [raised |-> TRUE, result |-> <<Word(exception)>>, agents |-> crew,
     calls |-> sent]

\* The second completion request, after the tool has answered.
ToolFollowUp(response, tool_name, tool_result) ==
    <<Message("assistant", response),
      Message("user", <<Word("Tool result: "), Word("Tool ")>> \o PyStr(tool_name)
                      \o <<Word(" returned: ")>> \o PyStr(tool_result)
                      \o <<Word(". Please provide your final response.")>>)>>

SecondRequest(crew, agent_name, task_prompt, first, tool, messages2, answer2) ==
    Finish(crew, agent_name, task_prompt, MakeLLMRequest(messages2, answer2),
           <<first, tool, LLMCall(messages2, MakeLLMRequest(messages2, answer2))>>)

UseTool(crew, agent_name, task_prompt, messages, response, tool_name, parameters, tool_result, answer2) ==
    SecondRequest(crew, agent_name, task_prompt, LLMCall(messages, response),
                  ToolCall(tool_name, parameters, tool_result),
                  messages \o ToolFollowUp(response, tool_name, tool_result),
                  answer2)

\* The body of the try statement once json.loads has run.
Decoded(crew, agent_name, task_prompt, messages, response, action_data, gateway, answer2) ==
    IF ~action_data.ok
    THEN IF Handles("JSONDecodeError")
         THEN Finish(crew, agent_name, task_prompt, response,
                     <<LLMCall(messages, response)>>)
         ELSE Raise(crew, "JSONDecodeError", <<LLMCall(messages, response)>>)
    ELSE IF ~IsUseTool(action_data.val)
    THEN Finish(crew, agent_name, task_prompt, response,
                <<LLMCall(messages, response)>>)
    ELSE UseTool(crew, agent_name, task_prompt, messages, response,
                 ToolName(action_data.val), ToolParameters(action_data.val),
                 CallTool(ToolName(action_data.val),
                          ToolParameters(action_data.val), gateway),
                 answer2)

\* "Check if agent wants to use a tool"
Detect(crew, agent_name, task_prompt, messages, response, gateway, answer2) ==
    IF LooksLikeToolCall(response)
    THEN Decoded(crew, agent_name, task_prompt, messages, response,
                 JsonLoads(response), gateway, answer2)
    ELSE Finish(crew, agent_name, task_prompt, response,
                <<LLMCall(messages, response)>>)

FirstRequest(crew, agent_name, task_prompt, messages, answer1, gateway, answer2) ==
    Detect(crew, agent_name, task_prompt, messages,
           MakeLLMRequest(messages, answer1), gateway, answer2)

\* execute_agent_task(agent_name, task, context), given what the endpoint
\* answers to the first request, what the gateway answers and what the
\* endpoint answers to the second request.
ExecuteAgentTask(crew, agent_name, task, ctx, answer1, gateway, answer2) ==
    IF agent_name \notin DOMAIN crew
    THEN [raised |-> FALSE, result |-> AgentNotFound(agent_name),
          agents |-> crew, calls |-> <<>>]
    ELSE FirstRequest(crew, agent_name, TaskPrompt(task, ctx),
                      BuildMessages(crew[agent_name], task, ctx),
                      answer1, gateway, answer2)

\* ------------------------------------------------------- completion texts
Findings == <<Word("Findings about X")>>
FinalAnswer == <<Word("Final answer")>>
TakeAction == <<Word("take action")>>
EmptyText == <<>>
BraceNoAction == <<LB, Str("tool"), COLON, Str("t"), RB>>
BraceProse == <<LB, Word("action"), Word("now")>>
OtherAction == <<LB, Str("action"), COLON, Str("other"), RB>>
ActionAsValue == <<LB, Str("tool"), COLON, Str("action"), RB>>
ActionNull == <<LB, Str("action"), COLON, Lit("null"), RB>>
ActionObject ==
    <<LB, Str("action"), COLON, LB, Str("use_tool"), COLON, Num("1"), RB, RB>>
ReactionKey == <<LB, Str("reaction"), COLON, Str("use_tool"), RB>>
ActionTwice ==
    <<LB, Str("action"), COLON, Str("use_tool"), COMMA,
      Str("action"), COLON, Str("other"), RB>>
ToolRequest ==
    <<LB, Str("action"), COLON, Str("use_tool"), COMMA,
      Str("tool"), COLON, Str("t"), COMMA,
      Str("parameters"), COLON, LB, Str("x"), COLON, Num("1"), RB, RB>>
ToolRequestNoParams ==
    <<LB, Str("action"), COLON, SP, Str("use_tool"), COMMA, SP,
      Str("tool"), COLON, SP, Str("search"), RB>>
PaddedToolRequest == <<SP, NL>> \o ToolRequestNoParams \o <<NL>>
FormFeedToolRequest == <<FF>> \o ToolRequest
ToolRequestThenProse == ToolRequest \o <<SP, Word("thanks")>>

ToolRequests == {ToolRequest, ToolRequestNoParams, PaddedToolRequest}
FinalTexts ==
    {Findings, TakeAction, EmptyText, BraceNoAction, BraceProse, OtherAction,
     ActionAsValue, ActionNull, ActionObject, ReactionKey,
     ActionTwice, FormFeedToolRequest,
     ToolRequestThenProse}

Answers(texts) == {LLMOk(t) : t \in texts} \cup {LLMError}
GatewayAnswers ==
    {GatewayOk(<<"object", <<<<"result", <<"string", "42">>>>>>>>), GatewayError}

ResearchTask == <<Word("Research X")>>
AnalyzeTask == <<Word("Analyze X")>>
EarlierContext == <<NL, Word("analyst"), Word(" completed: ")>> \o Findings \o <<NL>>

\* ------------------------------------------------------------- the crew
NoTask == [agent_name |-> "", task |-> <<>>, context |-> <<>>]

InitCrew ==
    /\ agents = ResearchCrew
    /\ task_results = <<>>
    /\ pc = "idle"
    /\ workflow = <<>>
    /\ step = 0
    /\ results = <<>>
    /\ context = <<>>
    /\ returned = <<>>
    /\ call = NoTask
    /\ calls = <<>>
    /\ result = <<>>
    /\ raised = FALSE
    /\ task_count = [name \in DOMAIN ResearchCrew |-> 0]

Counted(count, crew, agent_name) ==
    IF agent_name \in DOMAIN crew
    THEN [count EXCEPT ![agent_name] = @ + 1]
    ELSE count

TasksRun == task_count["researcher"] + task_count["analyst"] + task_count["writer"]

\* One execute_agent_task call made directly on the crew.
TaskCall(names, tasks, contexts, firsts, gateways, seconds) ==
    \E agent_name \in names, task \in tasks, ctx \in contexts,
       answer1 \in firsts, gateway \in gateways, answer2 \in seconds :
        \E r \in {ExecuteAgentTask(agents, agent_name, task, ctx,
                                   answer1, gateway, answer2)} :
            /\ agents' = r.agents
            /\ call' = [agent_name |-> agent_name, task |-> task, context |-> ctx]
            /\ calls' = r.calls
            /\ result' = r.result
            /\ raised' = r.raised
            /\ task_count' = Counted(task_count, agents, agent_name)
            /\ UNCHANGED <<task_results, pc, workflow, step, results, context,
                           returned>>
            /\ UNCHANGED simpleVars

\* -------------------------------------------------- execute_crew_workflow
MaxSteps == 2
StepAgents == {"researcher", "analyst", "ghost"}
WorkflowSteps ==
    {[agent |-> a, task |-> t] : a \in StepAgents, t \in {ResearchTask, AnalyzeTask}}
Workflows == UNION {[1..n -> WorkflowSteps] : n \in 0..MaxSteps}

\* Fault: the key leaves the index out.
StepKeyNoIndex(i, agent_name) == <<"step_", 0, "_", agent_name>>

\* f"step_{i}_{agent_name}"
StepKey(i, agent_name) == <<"step_", i, "_", agent_name>>

\* Fault: context = instead of context +=.
NextContextOverwritten(ctx, agent_name, text) ==
    <<NL, Word(agent_name), Word(" completed: ")>> \o text \o <<NL>>

\* "Pass result as context to next agent"
NextContext(ctx, agent_name, text) ==
    ctx \o <<NL, Word(agent_name), Word(" completed: ")>> \o text \o <<NL>>

\* results[key] = {...}; the timestamp is left out.
Recorded(steps, key, task, text) ==
    (key :> [task |-> task, result |-> text]) @@ steps

\* The call: results = {}, context = "".
StartWorkflow ==
    /\ pc = "idle"
    /\ \E w \in Workflows : workflow' = w
    /\ pc' = "running"
    /\ step' = 0
    /\ results' = <<>>
    /\ context' = <<>>
    /\ UNCHANGED <<agents, task_results, returned, call, calls, result, raised,
                   task_count>>
    /\ UNCHANGED simpleVars

\* One iteration of the for loop.
WorkflowStep ==
    /\ pc = "running"
    /\ step < Len(workflow)
    /\ \E answer1 \in Answers({Findings, ToolRequest}),
          gateway \in GatewayAnswers,
          answer2 \in Answers({FinalAnswer, ToolRequest}) :
        \E r \in {ExecuteAgentTask(agents, workflow[step + 1].agent,
                                   workflow[step + 1].task, context,
                                   answer1, gateway, answer2)} :
            /\ agents' = r.agents
            /\ call' = [agent_name |-> workflow[step + 1].agent,
                        task |-> workflow[step + 1].task, context |-> context]
            /\ calls' = r.calls
            /\ result' = r.result
            /\ raised' = r.raised
            /\ task_count' = Counted(task_count, agents, workflow[step + 1].agent)
            /\ IF r.raised
               THEN \* nothing catches it: the call, and main, end here
                    pc' = "aborted" /\ UNCHANGED <<results, context, step>>
               ELSE /\ results' = Recorded(results,
                                           StepKey(step + 1, workflow[step + 1].agent),
                                           workflow[step + 1].task, r.result)
                    /\ context' = NextContext(context, workflow[step + 1].agent,
                                              r.result)
                    /\ step' = step + 1
                    /\ pc' = pc
    /\ UNCHANGED <<task_results, workflow, returned>>
    /\ UNCHANGED simpleVars

\* After the loop: the record is appended and results returned.
FinishWorkflow ==
    /\ pc = "running"
    /\ step = Len(workflow)
    /\ task_results' = Append(task_results,
                              [workflow |-> workflow, results |-> results])
    /\ returned' = results
    /\ pc' = "done"
    /\ UNCHANGED <<agents, workflow, step, results, context, call, calls, result,
                   raised, task_count>>
    /\ UNCHANGED simpleVars

\* ------------------------------------------------------- specifications
vars == <<simpleVars, crewVars>>
Init == InitSimple /\ InitCrew

\* The conversational agent under any sequence of calls.
NextSimple == ChatCall \/ ThinkCall \/ ResetConversation
SpecSimple == Init /\ [][NextSimple]_vars

\* execute_agent_task called directly, over every kind of first response.
MaxTasks == 2
DirectTask ==
    /\ TasksRun < MaxTasks
    /\ TaskCall({"researcher", "analyst", "ghost"}, {AnalyzeTask}, {<<>>},
                Answers(FinalTexts \cup ToolRequests), GatewayAnswers,
                Answers({FinalAnswer, ToolRequest}))
NextTask == DirectTask
SpecTask == Init /\ [][NextTask]_vars

\* Agents taking task after task, so that a history outgrows the window.
MaxHistoryTasks == 5
HistoryTask ==
    /\ TasksRun < MaxHistoryTasks
    /\ TaskCall({"researcher", "analyst"}, {ResearchTask}, {<<>>, EarlierContext},
                {LLMOk(Findings), LLMOk(ToolRequest)}, {GatewayError},
                {LLMOk(FinalAnswer)})
NextHistory == HistoryTask
SpecHistory == Init /\ [][NextHistory]_vars

\* main: one execute_crew_workflow call on the research crew.
NextCrew == StartWorkflow \/ WorkflowStep \/ FinishWorkflow
SpecCrew == Init /\ [][NextCrew]_vars

\* =====================================================================
\* Properties
\* =====================================================================
IsPrefix(a, b) == Len(a) <= Len(b) /\ SubSeq(b, 1, Len(a)) = a
IsSuffix(a, b) == Len(a) <= Len(b) /\ SubSeq(b, Len(b) - Len(a) + 1, Len(b)) = a
Alternates(history) ==
    /\ Len(history) % 2 = 0
    /\ \A k \in 1..Len(history) :
          history[k].role = IF k % 2 = 1 THEN "user" ELSE "assistant"
Count(log, kind) == Cardinality({k \in 1..Len(log) : log[k].kind = kind})
ErrorReply == <<Word("Error: "), Word("HTTPError 500")>>

\* C1: execute_crew_workflow on N steps never aborts and returns exactly N
\* Step Results, keyed step_<i>_<agent of step i> for i = 1..N, whatever the
\* steps' outcomes (agent not registered, completion call failed, tool used).
C1_OneResultPerStep ==
    /\ pc # "aborted"
    /\ pc \in {"running", "done"} =>
          /\ DOMAIN results = {<<"step_", i, "_", workflow[i].agent>> : i \in 1..step}
          /\ Cardinality(DOMAIN results) = step
          /\ \A i \in 1..step :
                results[<<"step_", i, "_", workflow[i].agent>>].task = workflow[i].task
    /\ pc = "running" => ENABLED (WorkflowStep \/ FinishWorkflow)
    /\ pc = "done" =>
          /\ step = Len(workflow)
          /\ returned = results
          /\ Cardinality(DOMAIN returned) = Len(workflow)

C1_Witness ==
    /\ pc = "done"
    /\ Len(workflow) = 2
    /\ workflow[1].agent = "ghost"
    /\ workflow[2].agent = "analyst"
    /\ returned[<<"step_", 2, "_", "analyst">>].result = ErrorReply

\* C2: the conversational agent's history never holds more than 10 entries;
\* a returned chat or think leaves the previous history plus the new
\* user/assistant pair, cut to its 10 most recent entries in order; after
\* reset_conversation the history is empty.
C2_HistoryCappedAtTen ==
    /\ [](Len(conversation_history) <= 10)
    /\ [](last.op = "reset" => conversation_history = <<>>)
    /\ [][(last'.op \in {"chat", "think"} /\ ~last'.raised) =>
            LET grown == conversation_history
                         \o <<[role |-> "user", content |-> last'.input],
                              [role |-> "assistant", content |-> last'.value]>>
            IN  conversation_history' =
                    IF Len(grown) > 10
                    THEN SubSeq(grown, Len(grown) - 9, Len(grown))
                    ELSE grown]_vars

C2_Witness ==
    /\ last.op = "chat"
    /\ ~last.raised
    /\ Len(request) = 12
    /\ Len(conversation_history) = 10
    /\ conversation_history[1] # request[2]

\* C3: when the first completion is a valid tool request, the task makes
\* exactly the exchanges completion, gateway (with the requested tool and
\* parameters, an empty mapping when none are given), completion, in that
\* order, and returns the second completion, even if that is a tool request
\* again; no task makes more than 1 gateway call or 2 completion calls.
C3_Requested(text) ==
    IF text = ToolRequest
    THEN [tool |-> <<"string", "t">>,
          parameters |-> <<"object", <<<<"x", <<"number", "1">>>>>>>>]
    ELSE [tool |-> <<"string", "search">>, parameters |-> <<"object", <<>>>>]

C3_OneToolRoundTrip ==
    /\ Count(calls, "tool") <= 1
    /\ Count(calls, "llm") <= 2
    /\ (calls # <<>> /\ calls[1].reply \in ToolRequests) =>
          /\ ~raised
          /\ Len(calls) = 3
          /\ calls[1].kind = "llm" /\ calls[2].kind = "tool" /\ calls[3].kind = "llm"
          /\ calls[2].tool = C3_Requested(calls[1].reply).tool
          /\ calls[2].parameters = C3_Requested(calls[1].reply).parameters
          /\ result = calls[3].reply

C3_Witness ==
    /\ Len(calls) = 3
    /\ calls[1].reply = PaddedToolRequest
    /\ calls[3].reply = ToolRequest
    /\ result = ToolRequest

\* C4: during execute_crew_workflow the context is, after step i, the lines
\* "\n<agent of j> completed: <result of j>\n" of the steps j = 1..i in step
\* order (empty before step 1), and each step's context extends the previous.
RECURSIVE C4_Lines(_)
C4_Lines(n) ==
    IF n = 0 THEN <<>>
    ELSE C4_Lines(n - 1)
         \o <<NL, Word(workflow[n].agent), Word(" completed: ")>>
         \o results[<<"step_", n, "_", workflow[n].agent>>].result
         \o <<NL>>

C4_ContextAccumulates ==
    /\ [](pc \in {"running", "done"} => context = C4_Lines(step))
    /\ [][pc = "running" => IsPrefix(context, context')]_vars

C4_Witness ==
    /\ pc = "running"
    /\ step = 2
    /\ workflow[1].agent = "analyst"
    /\ workflow[2].agent = "researcher"
    /\ result = FinalAnswer
    /\ Len(context) > 8

\* C5: a first completion that, trimmed, does not start with '{', or does
\* not contain 'action', or is not valid JSON, or whose action field is not
\* "use_tool", is the task's final result: nothing is raised, the gateway is
\* not called and no second completion is requested.
C5_NotARequest(text) ==
    \/ ~StartsWithBrace(Strip(text))
    \/ ~ContainsAction(text)
    \/ ~JsonLoads(text).ok
    \/ LET action == DictGet(JsonLoads(text).val, "action", PyNone)
       IN  ~(action[1] = "string" /\ action[2] = "use_tool")

C5_NoCallIsFinal ==
    (call.agent_name \in DOMAIN agents /\ C5_NotARequest(calls[1].reply)) =>
        /\ ~raised
        /\ Len(calls) = 1
        /\ calls[1].kind = "llm"
        /\ result = calls[1].reply

C5_Witness ==
    /\ call.agent_name = "researcher"
    /\ Len(calls) = 1
    /\ calls[1].reply = BraceProse
    /\ result = BraceProse

C7_MissingAgentStep ==
    /\ [](( /\ pc \in {"running", "done"}
            /\ step >= 1
            /\ workflow[step].agent \notin DOMAIN agents ) =>
           LET name == workflow[step].agent
               text == <<Word("Agent "), Word(name), Word(" not found")>>
           IN  /\ result = text
               /\ calls = <<>>
               /\ results[<<"step_", step, "_", name>>].result = text
               /\ IsSuffix(<<NL, Word(name), Word(" completed: ")>> \o text \o <<NL>>,
                           context)
               /\ pc = "running" => ENABLED (WorkflowStep \/ FinishWorkflow))
    /\ [][(step' = step + 1 /\ workflow[step'].agent \notin DOMAIN agents) =>
             agents' = agents /\ pc' = "running"]_vars

C7_Witness ==
    /\ pc = "running"
    /\ Len(workflow) = 2
    /\ step = 1
    /\ workflow[1].agent = "ghost"
    /\ workflow[2].agent = "researcher"

\* C8: the first completion request of a registered agent's task is one
\* system message, the agent's min(6, history length) most recent history
\* entries in order, and one user message, so at most 8 messages; the user
\* message is "Task: <task>", followed by the separator phrase and the
\* context exactly when the context is not empty.
C8_Separator == Word("Context from previous agents: ")

C8_PromptWindow ==
    (call.agent_name \in DOMAIN agents) =>
        LET history == agents[call.agent_name].conversation_history
            before == SubSeq(history, 1, Len(history) - 2)
            n == IF Len(before) < 6 THEN Len(before) ELSE 6
            sent == calls[1].messages
            content == sent[Len(sent)].content
        IN  /\ Len(sent) = n + 2
            /\ Len(sent) <= 8
            /\ sent[1].role = "system"
            /\ \A k \in 1..n : sent[1 + k] = before[Len(before) - n + k]
            /\ sent[n + 2].role = "user"
            /\ content = IF call.context = <<>>
                         THEN <<Word("Task: ")>> \o call.task
                         ELSE <<Word("Task: ")>> \o call.task
                              \o <<NL, NL, C8_Separator>> \o call.context
            /\ (\E k \in 1..Len(content) : content[k] = C8_Separator)
                   <=> call.context # <<>>

C8_Witness ==
    /\ call.agent_name = "researcher"
    /\ Len(agents["researcher"].conversation_history) = 10
    /\ Len(calls[1].messages) = 8
    /\ call.context # <<>>

\* C9: a task of a registered agent appends to that agent's history the
\* user entry with the task prompt and the assistant entry with the final
\* result, and nothing else (no tool request, no tool result); no other
\* history changes, nothing is removed: after k tasks a history has 2k
\* entries.
C9_Prompt ==
    IF call.context = <<>>
    THEN <<Word("Task: ")>> \o call.task
    ELSE <<Word("Task: ")>> \o call.task
         \o <<NL, NL, Word("Context from previous agents: ")>> \o call.context

C9_HistoryGrowsByTwo ==
    /\ [](\A name \in DOMAIN agents :
            /\ Len(agents[name].conversation_history) = 2 * task_count[name]
            /\ Alternates(agents[name].conversation_history))
    /\ [](call.agent_name \in DOMAIN agents =>
            /\ result = calls[Len(calls)].reply
            /\ IsSuffix(<<[role |-> "user", content |-> C9_Prompt],
                          [role |-> "assistant", content |-> result]>>,
                        agents[call.agent_name].conversation_history))
    /\ [][\A name \in DOMAIN agents :
            \/ agents'[name] = agents[name]
            \/ /\ name = call'.agent_name
               /\ Len(agents'[name].conversation_history)
                    = Len(agents[name].conversation_history) + 2
               /\ IsPrefix(agents[name].conversation_history,
                           agents'[name].conversation_history)]_vars

C9_Witness ==
    /\ task_count["researcher"] = 4
    /\ task_count["analyst"] = 1
    /\ Len(agents["researcher"].conversation_history) = 8
    /\ Len(calls) = 3
    /\ calls[1].reply = ToolRequest
    /\ result = FinalAnswer

\* C10: a chat or think call whose completion request fails changes neither
\* the history nor the configured reasoning level; the history is always a
\* sequence of user/assistant pairs.
C10_FailedCallChangesNothing ==
    /\ [](Alternates(conversation_history))
    /\ [][(last'.op \in {"chat", "think"} /\ last'.answer # "ok") =>
            /\ last'.raised
            /\ conversation_history' = conversation_history
            /\ reasoning_level' = reasoning_level]_vars

C10_Witness ==
    /\ last.op = "think"
    /\ last.level = "high"
    /\ last.answer = "request_exception"
    /\ reasoning_level = "medium"
    /\ Len(conversation_history) = 10

====
